---- MODULE Spec2Model ----
(***************************************************************************)
(* Decision & allocation engine of crypto-rebal-starter:                   *)
(*   static/modules/market-regimes.js      (src/unnamed/part_002)          *)
(*   static/modules/targets-coordinator.js (src/unnamed/part_001)          *)
(*   static/core/strategy-api-adapter.js                                   *)
(*   getUnifiedState (src/static/components/bitcoin-cycle-chart.js)        *)
(*                                                                         *)
(* Numbers.  Scores are JavaScript Numbers; a score s is represented by    *)
(* the integer s * ScoreDen.  Percentages of an allocation are kept in     *)
(* thousandths of a point (milli-percent), which is exact for every        *)
(* product allocateRiskyBudget forms.  NaN and null/undefined are the two  *)
(* sentinels NaN and Null; every arithmetic helper propagates NaN the way  *)
(* IEEE-754 does and every comparison with NaN is false.                   *)
(***************************************************************************)
EXTENDS Integers, Sequences, FiniteSets, TLC

VARIABLES biasOf, flags, cache, now, calls, ret, watch, seqPos,
          strategyCache, out, loader

vars == <<biasOf, flags, cache, now, calls, ret, watch, seqPos,
          strategyCache, out, loader>>

\* ------------------------------------------------------------- bounds ----
\* resolution of a score: scores are multiples of 1/ScoreDen
ScoreDen == 2
\* number of applyMarketOverrides calls followed in one behaviour
MaxCalls == 2
\* number of clock ticks followed in one behaviour
MaxTicks == 2
\* number of getUnifiedState calls followed in one behaviour
MaxUnified == 2

\* ------------------------------------------------ JavaScript numbers ----
NaN == -999999
Null == -999998

IsNum(x) == x # NaN /\ x # Null

Abs(x) == IF x < 0 THEN -x ELSE x
Max(a, b) == IF a >= b THEN a ELSE b
Min(a, b) == IF a <= b THEN a ELSE b

\* Math.round of the rational n/d (d > 0): floor(n/d + 1/2)
RoundDiv(n, d) == (2 * n + d) \div (2 * d)

\* Math.round(score) of a score in 1/ScoreDen units, as an integer
MathRound(s) == IF s = NaN THEN NaN ELSE RoundDiv(s, ScoreDen)

\* ------------------------------------------------------ MARKET_REGIMES ----
RegimeOrder == <<"accumulation", "expansion", "euphoria", "distribution">>
RegimeKeys == {"accumulation", "expansion", "euphoria", "distribution"}

RegimeRange == [accumulation |-> <<0, 39>>, expansion |-> <<40, 69>>,
                euphoria |-> <<70, 84>>, distribution |-> <<85, 100>>]

MARKET_REGIMES ==
  [accumulation |-> [btc_boost |-> 10, eth_boost |-> 5, alts_reduction |-> -15,
                     stables_target |-> 15, meme_cap |-> 0],
   expansion    |-> [btc_boost |-> 0, eth_boost |-> 0, alts_reduction |-> 0,
                     stables_target |-> 20, meme_cap |-> 5],
   euphoria     |-> [btc_boost |-> -5, eth_boost |-> 5, alts_reduction |-> 10,
                     stables_target |-> 15, meme_cap |-> 15],
   distribution |-> [btc_boost |-> 5, eth_boost |-> -5, alts_reduction |-> -15,
                     stables_target |-> 30, meme_cap |-> 0]]

\* ----------------------------------------------------- getMarketRegime ----
\* blendedScore >= min && blendedScore <= max  (false for NaN)
InRange(b, k) ==
  /\ IsNum(b)
  /\ b >= RegimeRange[k][1] * ScoreDen
  /\ b <= RegimeRange[k][2] * ScoreDen

\* the regimes whose range contains the score
Matching(b) == {k \in RegimeKeys : InRange(b, k)}

\* first entry of Object.entries(MARKET_REGIMES) whose range matches
FirstMatch(b) ==
  LET idx == {i \in 1..Len(RegimeOrder) : InRange(b, RegimeOrder[i])}
  IN RegimeOrder[CHOOSE i \in idx : \A j \in idx : i <= j]

\* confidence in thousandths: max(0.3, 1 - distance/maxDistance * 0.7)
calculateRegimeConfidence(b, k) ==
  LET lo == RegimeRange[k][1]
      hi == RegimeRange[k][2]
      dist2 == Abs(2 * b - (lo + hi) * ScoreDen)
      maxd2 == (hi - lo) * ScoreDen
  IN Max(300, (1000 * maxd2 - 700 * dist2) \div maxd2)

TransitionBuffer == 3

getTransitionStatus(b, k) ==
  IF b <= (RegimeRange[k][1] + TransitionBuffer) * ScoreDen THEN "entering"
  ELSE IF b >= (RegimeRange[k][2] - TransitionBuffer) * ScoreDen THEN "exiting"
  ELSE "stable"

\* The returned object is a shallow copy ({...regime}): its allocation_bias
\* is the very object held by MARKET_REGIMES[base].
getMarketRegime(b) ==
  IF b = Null \/ (IsNum(b) /\ (b < 0 \/ b > 100 * ScoreDen))
  THEN [key |-> "none", base |-> "expansion", score |-> b, confidence |-> 100,
        warning |-> "Score invalide", transition |-> "none"]
  ELSE IF Matching(b) # {}
  THEN [key |-> FirstMatch(b), base |-> FirstMatch(b), score |-> b,
        confidence |-> calculateRegimeConfidence(b, FirstMatch(b)),
        warning |-> "none", transition |-> getTransitionStatus(b, FirstMatch(b))]
  ELSE [key |-> "expansion", base |-> "expansion", score |-> b, confidence |-> 300,
        warning |-> "Regime non determine", transition |-> "none"]

\* ------------------------------------------------ applyMarketOverrides ----
DivUp == 27
DivDown == 23
HighRisk == 80
LowRisk == 30

\* flip without memory: the upper threshold whatever the previous flag
flip_NoHysteresis(prev, val, up, down) == val # NaN /\ val >= up

\* const flip = (prev, val, up, down) => prev ? (val > down) : (val >= up)
flip(prev, val, up, down) ==
  IF prev THEN val # NaN /\ val > down ELSE val # NaN /\ val >= up

\* Math.abs(regime.score - onchainScore)
Divergence(score, onchain) ==
  IF score = NaN \/ onchain = NaN THEN NaN ELSE Abs(score - onchain)

\* adjustedRegime = {...regime} copies the reference to allocation_bias, so
\* the three overrides below write into MARKET_REGIMES[regime.base].
\* Result: the bias object after the call, the flag, the overrides pushed.
applyMarketOverrides(bias, flag, score, onchain, risk) ==
  LET div == IF onchain # Null THEN Divergence(score, onchain) ELSE NaN
      f1 == IF onchain # Null
            THEN flip(flag, div, DivUp * ScoreDen, DivDown * ScoreDen)
            ELSE flag
      divOn == onchain # Null /\ f1
      b1 == IF divOn
            THEN [bias EXCEPT !.stables_target = @ + 10]
            ELSE bias
      high == IsNum(risk) /\ risk >= HighRisk * ScoreDen
      b2 == IF high
            THEN [b1 EXCEPT !.stables_target = Max(50, @),
                            !.alts_reduction = @ - 10,
                            !.meme_cap = 0]
            ELSE b1
      low == IsNum(risk) /\ risk <= LowRisk * ScoreDen
      b3 == IF low
            THEN [b2 EXCEPT !.alts_reduction = @ + 5, !.meme_cap = @ + 5]
            ELSE b2
  IN [bias |-> b3, flag |-> f1, divergence |-> div,
      overrides |-> (IF divOn THEN {"onchain_divergence"} ELSE {})
                    \cup (IF high THEN {"high_risk"} ELSE {})
                    \cup (IF low THEN {"low_risk"} ELSE {})]

\* ------------------------------------------------- calculateRiskBudget ----
CacheTTL == 30000

\* Math.round(riskScore || 0): null, undefined, NaN and 0 are falsy
RiskRounded(r) == IF r = Null \/ r = NaN THEN 0 ELSE MathRound(r)

\* (clamp(b - 35, 0, 45), risk) pairs at which baseRisky * riskCap * 100 is
\* mathematically k + 1/2 but the IEEE-754 double evaluation of lines
\* 235-247 lands just below it, so that Math.round yields k.
FloatTieBelow ==
  {<<11, -25>>, <<13, -25>>, <<15, -97>>, <<15, -73>>, <<15, -67>>, <<15, -61>>,
   <<15, -55>>, <<15, 5>>, <<15, 11>>, <<15, 29>>, <<15, 35>>, <<23, -25>>,
   <<25, -7>>, <<27, -55>>, <<27, -15>>, <<27, -5>>, <<27, 35>>, <<27, 105>>,
   <<27, 125>>, <<33, 35>>, <<33, 125>>, <<35, 83>>, <<35, 137>>, <<45, 85>>,
   <<45, 87>>, <<45, 89>>, <<45, 91>>, <<45, 93>>, <<45, 109>>, <<45, 111>>,
   <<45, 135>>, <<45, 137>>, <<45, 155>>, <<45, 157>>, <<45, 159>>}

\* riskyPct without the 20% floor
RiskyPct_NoFloor(bRounded, rRounded) ==
  IF bRounded = NaN THEN NaN
  ELSE LET bc == Max(0, Min(45, bRounded - 35))
           num == bc * (200 - rRounded)
       IN IF num >= 85 * 90 THEN 85 ELSE RoundDiv(num, 90)

\* riskyPct = Math.round(clamp(baseRisky * riskCap, 0.20, 0.85) * 100) with
\*   riskCap = 1 - 0.5 * risk / 100, baseRisky = clamp((blended - 35) / 45, 0, 1)
\* so baseRisky * riskCap * 100 = clamp(blended - 35, 0, 45) * (200 - risk) / 90.
RiskyPct(bRounded, rRounded) ==
  IF bRounded = NaN THEN NaN
  ELSE LET bc == Max(0, Min(45, bRounded - 35))
           num == bc * (200 - rRounded)
       IN IF num <= 20 * 90 THEN 20
          ELSE IF num >= 85 * 90 THEN 85
          ELSE IF <<bc, rRounded>> \in FloatTieBelow THEN RoundDiv(num, 90) - 1
          ELSE RoundDiv(num, 90)

\* const stablesPct = 100 - riskyPct
StablesPct(risky) == IF risky = NaN THEN NaN ELSE 100 - risky

EmptyCache == [key |-> <<Null, Null>>, risky |-> 0, stables |-> 0, timestamp |-> 0,
               generated_at |-> 0]

\* the cache lookup without the comparison of the key
calculateRiskBudget_AnyKey(c, t, blended, risk) ==
  LET key == <<MathRound(blended), RiskRounded(risk)>>
      hit == c.key # <<Null, Null>> /\ t - c.timestamp < CacheTTL
      risky == RiskyPct(key[1], key[2])
      fresh == [key |-> key, risky |-> risky, stables |-> StablesPct(risky),
                timestamp |-> t, generated_at |-> t]
  IN [hit |-> hit, cache |-> IF hit THEN [c EXCEPT !.key = key] ELSE fresh,
      risky |-> IF hit THEN c.risky ELSE risky,
      stables |-> IF hit THEN c.stables ELSE StablesPct(risky),
      generated_at |-> IF hit THEN c.generated_at ELSE t]

\* Result of one call at time t against cache c: the object returned and the
\* cache afterwards.  generated_at stands for the identity of the object.
calculateRiskBudget(c, t, blended, risk) ==
  LET key == <<MathRound(blended), RiskRounded(risk)>>
      hit == c.key = key /\ t - c.timestamp < CacheTTL
      risky == RiskyPct(key[1], key[2])
      fresh == [key |-> key, risky |-> risky, stables |-> StablesPct(risky),
                timestamp |-> t, generated_at |-> t]
  IN [hit |-> hit, cache |-> IF hit THEN c ELSE fresh,
      risky |-> IF hit THEN c.risky ELSE risky,
      stables |-> IF hit THEN c.stables ELSE StablesPct(risky),
      generated_at |-> IF hit THEN c.generated_at ELSE t]

\* ------------------------------------------------- allocateRiskyBudget ----
Groups == {"BTC", "ETH", "Stablecoins", "SOL", "L1/L0 majors", "L2/Scaling",
           "DeFi", "AI/Data", "Gaming/NFT", "Memecoins", "Others"}

\* x || d
OrDefault(x, d) == IF x = 0 \/ x = NaN THEN d ELSE x

\* Math.round(a * (100 / total)).  For the totals that occur (multiples of 5)
\* the double product rounds as the exact quotient does.
Renorm(a, total) ==
  IF total > 0 THEN RoundDiv(100 * a, total)
  ELSE IF total < 0 THEN RoundDiv(-100 * a, -total)
  ELSE NaN

\* the four sleeves after the regime bias and the rounding renormalisation
Sleeves(bias) ==
  LET btc == 50 + OrDefault(bias.btc_boost, 0)
      eth == 30 + OrDefault(bias.eth_boost, 0)
      mid == 15 + OrDefault(bias.alts_reduction, 0)
      meme == Min(5, OrDefault(bias.meme_cap, 5))
      total == btc + eth + mid + meme
  IN IF total # 100
     THEN [btc |-> Renorm(btc, total), eth |-> Renorm(eth, total),
           midcaps |-> Renorm(mid, total), meme |-> Renorm(meme, total)]
     ELSE [btc |-> btc, eth |-> eth, midcaps |-> mid, meme |-> meme]

\* a * riskyPercentage / 100 * tenths / 10, in thousandths of a point
Scaled(a, risky, tenths) ==
  IF a = NaN \/ risky = NaN THEN NaN ELSE a * risky * tenths

allocateRiskyBudget(risky, bias) ==
  LET s == Sleeves(bias)
  IN [g \in Groups |->
       CASE g = "BTC" -> Scaled(s.btc, risky, 10)
         [] g = "ETH" -> Scaled(s.eth, risky, 10)
         [] g = "SOL" -> Scaled(s.midcaps, risky, 2)
         [] g = "L1/L0 majors" -> Scaled(s.midcaps, risky, 4)
         [] g = "L2/Scaling" -> Scaled(s.midcaps, risky, 3)
         [] g = "DeFi" -> Scaled(s.midcaps, risky, 1)
         [] g = "AI/Data" -> Scaled(s.meme, risky, 5)
         [] g = "Gaming/NFT" -> Scaled(s.meme, risky, 3)
         [] g = "Memecoins" -> Scaled(s.meme, risky, 2)
         [] g = "Stablecoins" -> IF risky = NaN THEN NaN ELSE (100 - risky) * 1000
         [] OTHER -> 0]

\* ----------------------------------------------------- normalizeTargets ----
\* a value that is a non-numeric string (typeof value !== 'number')
Str == -999997

GroupOrder == <<"BTC", "ETH", "Stablecoins", "SOL", "L1/L0 majors", "L2/Scaling",
                "DeFi", "AI/Data", "Gaming/NFT", "Memecoins", "Others">>

\* DEFAULT_MACRO_TARGETS, in thousandths of a point
DEFAULT_MACRO_TARGETS ==
  [g \in Groups |->
     CASE g = "BTC" -> 35000 [] g = "ETH" -> 25000 [] g = "Stablecoins" -> 20000
       [] g = "SOL" -> 5000 [] g = "L1/L0 majors" -> 7000 [] g = "L2/Scaling" -> 4000
       [] g = "DeFi" -> 2000 [] g = "AI/Data" -> 1500 [] g = "Gaming/NFT" -> 500
       [] OTHER -> 0]

\* a + b on Numbers
Add(a, b) == IF a = NaN \/ b = NaN THEN NaN ELSE a + b

RECURSIVE SumUpTo(_, _)
SumUpTo(t, n) == IF n = 0 THEN 0 ELSE Add(SumUpTo(t, n - 1), t[GroupOrder[n]])

\* Object.values(numericTargets).reduce((sum, val) => sum + val, 0)
Total(t) == SumUpTo(t, Len(GroupOrder))

\* (value / total) * 100 for total > 0, kept to the thousandth of a point:
\* 100000 * v / total rounded to the nearest integer, by long division so
\* that no intermediate product leaves 32 bits
Rescale(v, total) ==
  IF v = NaN \/ total = NaN THEN NaN
  ELSE ((1000 * v) \div total) * 100 + RoundDiv(((1000 * v) % total) * 100, total)

\* normalizeTargets: throws when total <= 0 (false for a NaN total); values
\* are divided by the total as they are, negative ones included
normalizeTargets(t) ==
  LET total == Total(t)
  IN IF total # NaN /\ total <= 0
     THEN [threw |-> TRUE, targets |-> t]
     ELSE [threw |-> FALSE, targets |-> [g \in Groups |-> Rescale(t[g], total)]]

\* ------------------------------------------------ applyCycleMultipliers ----
\* A multipliers object maps a group to Null (key absent), a number given in
\* 1/den, NaN, or Str.  multipliers[asset] || 1.0 falls back to 1.0 for an
\* absent key, 0 and NaN; allocation * "text" is NaN.
EffMult(m, den) ==
  IF m = Null \/ m = 0 \/ m = NaN THEN den ELSE IF m = Str THEN NaN ELSE m

Mul(a, m) == IF a = NaN \/ m = NaN THEN NaN ELSE a * m

\* every allocation is multiplied by its multiplier (numerator over den; the
\* common denominator cancels in normalizeTargets), then normalised
applyCycleMultipliers(t, mults, den) ==
  normalizeTargets([g \in Groups |-> Mul(t[g], EffMult(mults[g], den))])

MultDen == 10

\* dilutedMultipliers[asset] = 1 + (mult - 1) * 0.5 for every key present,
\* as a numerator over 2 * MultDen
Diluted(mults) ==
  [g \in Groups |->
     IF mults[g] = Null THEN Null
     ELSE IF mults[g] = NaN \/ mults[g] = Str THEN NaN
     ELSE MultDen + mults[g]]

\* --------------------------------------------------- generateCCSTargets ----
\* interpretCCS(score).level, from the ranges the switch of
\* generateCCSTargets documents (signals-engine.js is not part of src/)
interpretCCS(c) ==
  IF c = NaN THEN "unknown"
  ELSE IF c >= 80 * ScoreDen THEN "very_high"
  ELSE IF c >= 65 * ScoreDen THEN "high"
  ELSE IF c >= 50 * ScoreDen THEN "medium"
  ELSE IF c >= 35 * ScoreDen THEN "low"
  ELSE "very_low"

Preset(btc, eth, stables, sol, l1, l2, defi, ai, gaming) ==
  [g \in Groups |->
     CASE g = "BTC" -> btc [] g = "ETH" -> eth [] g = "Stablecoins" -> stables
       [] g = "SOL" -> sol [] g = "L1/L0 majors" -> l1 [] g = "L2/Scaling" -> l2
       [] g = "DeFi" -> defi [] g = "AI/Data" -> ai [] g = "Gaming/NFT" -> gaming
       [] OTHER -> 0]

CCSPreset(level) ==
  CASE level = "very_high" -> Preset(40000, 30000, 10000, 8000, 7000, 3000, 1000, 500, 500)
    [] level = "high" -> Preset(38000, 28000, 15000, 7000, 6000, 3000, 2000, 500, 500)
    [] level = "medium" -> DEFAULT_MACRO_TARGETS
    [] level = "low" -> Preset(30000, 20000, 30000, 4000, 6000, 3000, 5000, 1500, 500)
    [] level = "very_low" -> Preset(25000, 15000, 45000, 3000, 4000, 2000, 5000, 1000, 0)
    [] OTHER -> [g \in Groups |-> 0]

\* throws on a score that is not a number in [0,100]
generateCCSTargets(c) ==
  IF c = Null \/ c = Str \/ (c # NaN /\ (c < 0 \/ c > 100 * ScoreDen))
  THEN [threw |-> TRUE, targets |-> [g \in Groups |-> 0]]
  ELSE normalizeTargets(CCSPreset(interpretCCS(c)))

\* -------------------------------------------------- generateSmartTargets ----
\* placeholders for the parts of a result a call does not produce
ZeroBias == [btc_boost |-> 0, eth_boost |-> 0, alts_reduction |-> 0,
             stables_target |-> 0, meme_cap |-> 0]

NoRegime == [key |-> "none", base |-> "none", score |-> Null, confidence |-> 0,
             warning |-> "none", transition |-> "none"]

\* x is falsy: null, undefined, 0 or NaN
Falsy(x) == x = Null \/ x = 0 \/ x = NaN

\* state.governance.ml_signals absent (or without a numeric decision_score)
NoSignals == [present |-> FALSE, ds |-> 0, dc |-> 0, vol |-> 0]

\* a store snapshot with nothing in it; hasMultipliers tells whether
\* state.cycle.multipliers is an object
EmptyStore ==
  [blended |-> Null, onchain |-> Null, risk |-> Null, signals |-> NoSignals,
   backend |-> "unknown", ccs |-> Null, ccsStar |-> Null,
   hasMultipliers |-> FALSE, multipliers |-> [g \in Groups |-> Null]]

\* the exposure cap of the backend decision engine (null without signals);
\* signals carry decision_score, confidence and the mean volatility, each in
\* thousandths
ExposureCap(sig, blended) ==
  IF ~sig.present THEN Null
  ELSE LET raw == sig.ds * Max(0, Min(1000, sig.dc))
           tier == IF raw >= 800000 /\ blended # NaN /\ blended >= 70 * ScoreDen
                   THEN 85
                   ELSE IF raw >= 650000 THEN 70 ELSE 55
           volPenalty == Max(0, RoundDiv(sig.vol - 200, 10))
       IN Max(30, Min(95, tier - Min(15, volPenalty)))

\* Math.min(a, b) on Numbers
MathMin(a, b) == IF a = NaN \/ b = NaN THEN NaN ELSE Min(a, b)

\* the final risky budget without the caps of a backend that is down or stale
FinalRisky_AnyStatus(baseRisky, cap, backend) ==
  IF cap # Null THEN MathMin(baseRisky, cap) ELSE baseRisky

\* finalRisky: min(baseRisky, exposureCap) when there is a cap, then at most
\* 5 when the backend is in error and at most 8 when its signals are stale
FinalRisky(baseRisky, cap, backend) ==
  LET capped == IF cap # Null THEN MathMin(baseRisky, cap) ELSE baseRisky
  IN IF backend = "error" THEN MathMin(capped, 5)
     ELSE IF backend = "stale" THEN MathMin(capped, 8)
     ELSE capped

MacroNormalized == normalizeTargets(DEFAULT_MACRO_TARGETS).targets

\* a result that leaves the shared state as it found it
Untouched(bias, flag, c) ==
  [targets |-> [g \in Groups |-> 0], strategy |-> "", mode |-> "",
   confidence |-> 0, error |-> FALSE, raised |-> FALSE,
   biasOf |-> bias, flag |-> flag, cache |-> c, overridden |-> FALSE,
   budget |-> FALSE, hit |-> FALSE, generated_at |-> 0,
   regime |-> NoRegime, bias |-> ZeroBias, overrides |-> {}, divergence |-> NaN,
   risky |-> 0, stables |-> 0, final_risky |-> 0, exposure_cap |-> Null,
   allocation |-> [g \in Groups |-> 0]]

\* generateSmartTargets against the shared state (bias objects, flag, cache,
\* clock).  raised records that the catch block ran.  logThrows: the logger
\* that calculateRiskBudget calls on a cache miss (window.debugLogger.info,
\* detached from its object) throws.
\* Result: the proposal, and the shared state the call leaves behind.
generateSmartTargets(st, bias, flag, c, t, logThrows) ==
  IF st.blended = Null
  THEN [Untouched(bias, flag, c) EXCEPT
          !.targets = MacroNormalized,
          !.strategy = "Macro fallback (no blended score)",
          !.mode = "fallback", !.confidence = 300]
  ELSE
    LET regime == getMarketRegime(st.blended)
        adj == applyMarketOverrides(bias[regime.base], flag, regime.score,
                                    st.onchain, st.risk)
        bias1 == [bias EXCEPT ![regime.base] = adj.bias]
        rb == calculateRiskBudget(c, t, st.blended, st.risk)
        budgetThrew == ~rb.hit /\ logThrows
        cap == ExposureCap(st.signals, st.blended)
        finalRisky == FinalRisky(rb.risky, cap, st.backend)
        alloc == allocateRiskyBudget(finalRisky, adj.bias)
        norm == normalizeTargets(alloc)
    IN IF budgetThrew \/ norm.threw
       THEN [targets |-> MacroNormalized,
             strategy |-> "Smart targeting failed - using macro fallback",
             mode |-> "fallback", confidence |-> 200, error |-> TRUE,
             raised |-> TRUE, biasOf |-> bias1, flag |-> adj.flag, overridden |-> TRUE,
             cache |-> IF budgetThrew THEN c ELSE rb.cache,
             budget |-> ~budgetThrew, hit |-> rb.hit,
             generated_at |-> rb.generated_at,
             regime |-> regime, bias |-> adj.bias, overrides |-> adj.overrides,
             divergence |-> adj.divergence,
             risky |-> 0, stables |-> 0, final_risky |-> 0, exposure_cap |-> Null,
             allocation |-> [g \in Groups |-> 0]]
       ELSE [targets |-> norm.targets, strategy |-> "regime (score) | n% Stables",
             mode |-> "smart", confidence |-> regime.confidence, error |-> FALSE,
             raised |-> FALSE, biasOf |-> bias1, flag |-> adj.flag, overridden |-> TRUE,
             cache |-> rb.cache, budget |-> TRUE, hit |-> rb.hit,
             generated_at |-> rb.generated_at,
             regime |-> regime, bias |-> adj.bias, overrides |-> adj.overrides,
             divergence |-> adj.divergence,
             risky |-> rb.risky, stables |-> rb.stables, final_risky |-> finalRisky,
             exposure_cap |-> cap, allocation |-> alloc]

\* ------------------------------------------------------- proposeTargets ----
CcsFallback == Preset(45000, 30000, 10000, 6000, 5000, 2500, 1000, 500, 0)
CycleFallback == Preset(28000, 18000, 40000, 4000, 5000, 2500, 2000, 500, 0)
BlendFallback == Preset(33000, 27000, 22000, 5000, 6500, 3500, 2500, 500, 0)

\* the body of the switch for the modes other than 'smart': the raw targets
\* and the strategy label, or threw
StrategyOf(mode, st) ==
  CASE mode = "macro" ->
         [threw |-> FALSE, targets |-> DEFAULT_MACRO_TARGETS,
          strategy |-> "Fixed macro allocation"]
    [] mode = "ccs" ->
         IF Falsy(st.ccs)
         THEN [threw |-> FALSE, targets |-> CcsFallback,
               strategy |-> "CCS Aggressive (simulated)"]
         ELSE [threw |-> generateCCSTargets(st.ccs).threw,
               targets |-> generateCCSTargets(st.ccs).targets,
               strategy |-> "CCS-based (n)"]
    [] mode = "cycle" ->
         IF ~st.hasMultipliers
         THEN [threw |-> FALSE, targets |-> CycleFallback,
               strategy |-> "Cycle Bear Market (defensive)"]
         ELSE LET r == applyCycleMultipliers(DEFAULT_MACRO_TARGETS,
                                             st.multipliers, MultDen)
              IN [threw |-> r.threw, targets |-> r.targets,
                  strategy |-> "Cycle-adjusted (phase)"]
    [] OTHER ->
         LET effectiveScore == IF Falsy(st.blended) THEN st.ccsStar ELSE st.blended
         IN IF Falsy(st.ccs) \/ (Falsy(st.blended) /\ Falsy(st.ccsStar))
            THEN [threw |-> FALSE, targets |-> BlendFallback,
                  strategy |-> "Balanced Blend (no scores available)"]
            ELSE IF effectiveScore # Str /\ effectiveScore >= 70 * ScoreDen
            THEN LET g == generateCCSTargets(st.ccsStar)
                     r == IF g.threw \/ ~st.hasMultipliers THEN g
                          ELSE applyCycleMultipliers(g.targets, st.multipliers, MultDen)
                 IN [threw |-> r.threw, targets |-> r.targets,
                     strategy |-> "High Score: Blended (n)"]
            ELSE LET r == IF ~st.hasMultipliers
                          THEN [threw |-> FALSE, targets |-> DEFAULT_MACRO_TARGETS]
                          ELSE applyCycleMultipliers(DEFAULT_MACRO_TARGETS,
                                                     Diluted(st.multipliers),
                                                     2 * MultDen)
                 IN [threw |-> r.threw, targets |-> r.targets,
                     strategy |-> "Conservative: Blended (n)"]

\* confidence: ccsScore && blendedCCS ? Math.min(1.0, blendedCCS / 100) : 0.5
ProposalConfidence(st) ==
  IF Falsy(st.ccs) \/ Falsy(st.ccsStar) THEN 500
  ELSE IF st.ccsStar = Str THEN NaN
  ELSE Min(1000, (10 * st.ccsStar) \div ScoreDen)

\* proposeTargets(mode): the proposal and the shared state left behind
proposeTargets(mode, st, bias, flag, c, t, logThrows) ==
  LET smart == generateSmartTargets(st, bias, flag, c, t, logThrows)
      isSmart == mode = "smart"
      raw == IF isSmart
             THEN [threw |-> FALSE, targets |-> smart.targets,
                   strategy |-> smart.strategy]
             ELSE StrategyOf(mode, st)
      norm == IF raw.threw THEN raw ELSE normalizeTargets(raw.targets)
      shared == IF isSmart THEN smart ELSE Untouched(bias, flag, c)
  IN IF norm.threw
     THEN [shared EXCEPT !.targets = MacroNormalized,
                         !.strategy = "Safe fallback (error occurred)",
                         !.mode = "fallback", !.confidence = 300, !.error = TRUE,
                         !.raised = TRUE]
     ELSE [shared EXCEPT !.targets = norm.targets, !.strategy = raw.strategy,
                         !.mode = mode, !.confidence = ProposalConfidence(st),
                         !.error = FALSE]

\* --------------------------------------------------- strategy-api-adapter ----
\* static/core/strategy-api-adapter.js.  Confidences are in thousandths.
StrategyTTL == 60000
V2Confidence == 800
FallbackConfidence == 600
ContradictionAverse == 600
ConservativeBelow == 30
AggressiveAbove == 70

\* context.contradiction built by getUnifiedState from the contradiction list
ContextContradiction(n) == IF n > 0 THEN Min(n * 150, 480) ELSE 100

\* determineAppropriateTemplate: riskScore is null or a number, 0 is falsy
determineAppropriateTemplate(riskScore, contradiction) ==
  IF contradiction > ContradictionAverse THEN "contradiction_averse"
  ELSE IF riskScore # Null /\ riskScore # 0
          /\ riskScore < ConservativeBelow * ScoreDen THEN "conservative"
  ELSE IF riskScore # Null /\ riskScore # 0
          /\ riskScore > AggressiveAbove * ScoreDen THEN "aggressive"
  ELSE "balanced"

\* _strategyCache; data is the decision object itself, of which the model
\* keeps the confidence field and, as history, the confidence the engine
\* gave it when it built the object
NoContext == [cycleScore |-> Null, onchainScore |-> Null, riskScore |-> Null]

EmptyStrategyCache ==
  [timestamp |-> 0, data |-> FALSE, template |-> "none",
   confidence |-> 0, produced |-> 0, computedFrom |-> NoContext]

\* the confidence of the decision the engine builds on a cache miss: V2
\* allocation, Strategy API result (the backend's figure), hardcoded fallback
EngineConfidence(engine) ==
  CASE engine.path = "v2" -> V2Confidence
    [] engine.path = "api" -> engine.confidence
    [] OTHER -> FallbackConfidence

\* calculateIntelligentDecisionIndexAPI(context) at time t with cache sc:
\* the decision object returned (hit: the cached object) and the cache left.
\* computedFrom is history: the scores of the context the decision was
\* computed from.
calculateIntelligentDecisionIndexAPI(sc, t, context, contradiction, engine) ==
  LET templateId == determineAppropriateTemplate(context.riskScore, contradiction)
      cacheValid == /\ sc.data
                    /\ sc.template = templateId
                    /\ t - sc.timestamp < StrategyTTL
      fresh == EngineConfidence(engine)
  IN IF cacheValid
     THEN [hit |-> TRUE, cache |-> sc, confidence |-> sc.confidence,
           produced |-> sc.produced, computedFrom |-> sc.computedFrom]
     ELSE [hit |-> FALSE,
           cache |-> [timestamp |-> t, data |-> TRUE, template |-> templateId,
                      confidence |-> fresh, produced |-> fresh,
                      computedFrom |-> context],
           confidence |-> fresh, produced |-> fresh, computedFrom |-> context]

\* ------------------------------------------------- calculateAdaptiveWeights ----
\* weights and the speed multiplier are in thousandths
StrongCycle == 90
FirmCycle == 70
DefaultScore == 50
OnchainFloor == 30
SlowAt == 3
SlowerPaceAt == 2

\* speedMultiplier for a contradiction level
speedMultiplier(contradictionLevel) ==
  IF contradictionLevel >= SlowAt THEN 600
  ELSE IF contradictionLevel >= SlowerPaceAt THEN 800
  ELSE 1000

\* the three weights for a cycle score
AdaptiveWeights_Default(cycleScore) ==
  [wCycle |-> 500, wOnchain |-> 300, wRisk |-> 200]
AdaptiveWeights(cycleScore) ==
  IF cycleScore >= StrongCycle * ScoreDen
  THEN [wCycle |-> 650, wOnchain |-> 250, wRisk |-> 100]
  ELSE IF cycleScore >= FirmCycle * ScoreDen
  THEN [wCycle |-> 550, wOnchain |-> 280, wRisk |-> 170]
  ELSE [wCycle |-> 500, wOnchain |-> 300, wRisk |-> 200]

\* calculateAdaptiveWeights(cycleData, onchainScore, contradictions): score is
\* cycleData.score (Null when missing), level is contradictions.length
calculateAdaptiveWeights(score, onchainScore, level) ==
  LET cycleScore == IF Falsy(score) THEN DefaultScore * ScoreDen ELSE score
      w == AdaptiveWeights(cycleScore)
      onchainPenaltyFloor == IF cycleScore >= StrongCycle * ScoreDen
                             THEN OnchainFloor ELSE 0
      onchain == IF onchainScore = Null THEN DefaultScore * ScoreDen
                 ELSE onchainScore
  IN [wCycle |-> w.wCycle, wOnchain |-> w.wOnchain, wRisk |-> w.wRisk,
      onchainFloor |-> onchainPenaltyFloor,
      adjustedOnchainScore |-> Max(onchainPenaltyFloor * ScoreDen, onchain),
      speedMultiplier |-> speedMultiplier(level)]

\* ---------------------------------------------------------- getUnifiedState ----
MaxPenalty == 150
PenaltyStep == 50
MaxConfidence == 950

contraPenalty(n) == Min(n * PenaltyStep, MaxPenalty)

\* Math.max(0, Math.min(0.95, confidence - contraPenalty))
AdjustedConfidence(confidence, n) ==
  Max(0, Min(MaxConfidence, confidence - contraPenalty(n)))

\* (state.scores && state.scores.x) || null
OrNull(x) == IF x = Null \/ x = 0 \/ x = NaN THEN Null ELSE x

\* the contradictions getUnifiedState keeps of those detected: slice(0, 2)
KeptContradictions == 2
Kept(detected) == Min(detected, KeptContradictions)

\* ------------------------------------------------------ validateRebalancing ----
\* Weights and changes are in thousandths of a point, a drawdown in
\* thousandths, relative changes in tenths of a percent, money in dollars.
MinChangeThreshold == 3000
MinRelativeChange == 200
MinOrderSizeUsd == 200
DrawdownBreaker == -250
RiskBreaker == 45
RebalanceFrequencyHours == 168
HighPriorityAbove == 5000
StablesFloor == 40000
MsPerHour == 3600000
ComplexityAbove == 5
VolumeAbove == 20000

\* parseFloat(x.toFixed(2)) of a number of points (exact away from the
\* ties at 5 thousandths, where the binary expansion decides)
ToFixed2(x) == RoundDiv(x, 10) * 10

\* value || 0 of an own property that may be missing or zero
OrZero(x) == IF x = Null \/ x = NaN THEN 0 ELSE x

\* relativeChange * 100 after toFixed(1), in tenths of a percent
RelativeChange(current, proposed) ==
  IF current > 0 THEN RoundDiv(Abs(proposed - current) * 1000, current)
  ELSE IF proposed > 0 THEN 1000 ELSE 0

\* the entry pushed for one asset
ChangeOf(asset, currentAlloc, proposedAlloc) ==
  LET current == OrZero(currentAlloc[asset])
      proposed == OrZero(proposedAlloc[asset])
      absoluteChange == Abs(proposed - current)
  IN [asset |-> asset, current |-> ToFixed2(current),
      proposed |-> ToFixed2(proposed),
      raw_change |-> absoluteChange,
      absolute_change |-> ToFixed2(absoluteChange),
      relative_change |-> RelativeChange(current, proposed),
      action |-> IF proposed > current THEN "buy" ELSE "sell",
      priority |-> IF absoluteChange > HighPriorityAbove THEN "high" ELSE "medium",
      skip_reason |-> FALSE]

\* validation.changes after the loop over the assets, in key order
ChangesOf(currentAlloc, proposedAlloc) ==
  SelectSeq([i \in 1..Len(GroupOrder) |->
               ChangeOf(GroupOrder[i], currentAlloc, proposedAlloc)],
            LAMBDA c : c.raw_change > MinChangeThreshold)

\* rule 1: the entries that pass the filter
SignificantChanges(changes) ==
  SelectSeq(changes,
            LAMBDA c : \/ c.absolute_change >= MinChangeThreshold
                       \/ c.relative_change >= MinRelativeChange)

\* rule 1 blocks: significantChanges.length === 0
NoSignificantChange_Never(changes) == FALSE
NoSignificantChange(changes) == Len(SignificantChanges(changes)) = 0

\* validation.valid is set to false by rule 1 and by rule 3 (drawdown); the
\* on-chain rule 2 only pushes a warning
Blocked_ByWarning(noneSignificant, riskWarning, drawdownBlock) ==
  noneSignificant \/ riskWarning \/ drawdownBlock
Blocked(noneSignificant, riskWarning, drawdownBlock) ==
  noneSignificant \/ drawdownBlock

\* rule 4: skip marking of one entry for a portfolio value
Marked(c, portfolioValueUSD) ==
  IF portfolioValueUSD # Null /\ portfolioValueUSD # 0
     /\ c.absolute_change * portfolioValueUSD < MinOrderSizeUsd * 100000
  THEN [c EXCEPT !.skip_reason = TRUE]
  ELSE c

RECURSIVE VolumeUpTo(_, _)
VolumeUpTo(changes, n) ==
  IF n = 0 THEN 0 ELSE VolumeUpTo(changes, n - 1) + changes[n].absolute_change

NoOptions ==
  [onchainScore |-> Null, drawdown |-> Null, portfolioValueUSD |-> Null,
   lastRebalanceTime |-> Null]

\* a target map passed to validateRebalancing: null or undefined, or an
\* object whose weights are a function over the asset groups
NoTargets == [present |-> FALSE, weights |-> [g \in Groups |-> Null]]
Given(weights) == [present |-> TRUE, weights |-> weights]

\* validateRebalancing(currentTargets, proposedTargets, options) at time t
validateRebalancing(currentTargets, proposedTargets, options, t) ==
  IF ~currentTargets.present \/ ~proposedTargets.present
  THEN [valid |-> FALSE, changes |-> <<>>, warnings |-> {},
        blocked_reasons |-> {"Missing allocation data"}, recommendations |-> {}]
  ELSE
  LET changes == ChangesOf(currentTargets.weights, proposedTargets.weights)
      noneSignificant == NoSignificantChange(changes)
      stablesTarget == OrZero(proposedTargets.weights["Stablecoins"])
      riskWarning == /\ options.onchainScore # Null
                     /\ options.onchainScore < RiskBreaker * ScoreDen
                     /\ stablesTarget < StablesFloor
      drawdownBlock == /\ options.drawdown # Null
                       /\ options.drawdown < DrawdownBreaker
                       /\ stablesTarget < StablesFloor
      frequencyWarning ==
        /\ options.lastRebalanceTime # Null /\ options.lastRebalanceTime # 0
        /\ t - options.lastRebalanceTime < RebalanceFrequencyHours * MsPerHour
      marked == [i \in 1..Len(changes) |->
                   Marked(changes[i], options.portfolioValueUSD)]
  IN [valid |-> ~Blocked(noneSignificant, riskWarning, drawdownBlock),
      changes |-> marked,
      warnings |-> {w \in {"risk_circuit_breaker", "frequency_warning"} :
                      \/ w = "risk_circuit_breaker" /\ riskWarning
                      \/ w = "frequency_warning" /\ frequencyWarning},
      blocked_reasons |->
        {b \in {"No significant changes", "Drawdown circuit breaker triggered"} :
           \/ b = "No significant changes" /\ noneSignificant
           \/ b = "Drawdown circuit breaker triggered" /\ drawdownBlock},
      recommendations |->
        {r \in {"complexity_warning", "volume_warning"} :
           \/ r = "complexity_warning" /\ Len(changes) > ComplexityAbove
           \/ r = "volume_warning"
              /\ VolumeUpTo(marked, Len(marked)) > VolumeAbove}]

\* ---------------------------------------------------- generateExecutionPlan ----
ImmediateUpTo == 3

highPriorityChanges(changes) ==
  SelectSeq(changes, LAMBDA c : c.priority = "high" /\ ~c.skip_reason)

mediumPriorityChanges_WithSkipped(changes) ==
  SelectSeq(changes, LAMBDA c : c.priority = "medium")
mediumPriorityChanges(changes) ==
  SelectSeq(changes, LAMBDA c : c.priority = "medium" /\ ~c.skip_reason)

skippedChanges(changes) == SelectSeq(changes, LAMBDA c : c.skip_reason)

\* execute_immediately of phase 2
MediumImmediately_Always(high) == TRUE
MediumImmediately(high) == Len(high) <= ImmediateUpTo

\* plan.phases: a phase is pushed only when it has changes
Phases(changes) ==
  LET high == highPriorityChanges(changes)
      medium == mediumPriorityChanges(changes)
      skipped == skippedChanges(changes)
      p1 == IF Len(high) > 0
            THEN <<[phase |-> 1, changes |-> high, execute_immediately |-> TRUE]>>
            ELSE <<>>
      p2 == IF Len(medium) > 0
            THEN <<[phase |-> 2, changes |-> medium,
                    execute_immediately |-> MediumImmediately(high)]>>
            ELSE <<>>
      p3 == IF Len(skipped) > 0
            THEN <<[phase |-> 3, changes |-> skipped,
                    execute_immediately |-> FALSE]>>
            ELSE <<>>
  IN p1 \o p2 \o p3

\* generateExecutionPlan(validationResult); hasPhases tells whether the
\* returned object has a phases property at all
generateExecutionPlan(validationResult) ==
  IF ~validationResult.valid
  THEN [executable |-> FALSE, hasPhases |-> FALSE, phases |-> <<>>,
        blocked_reasons |-> validationResult.blocked_reasons,
        total_changes |-> 0]
  ELSE [executable |-> TRUE, hasPhases |-> TRUE,
        phases |-> Phases(validationResult.changes),
        blocked_reasons |-> {},
        total_changes |-> Len(validationResult.changes)]

\* ---------------------------------------------------------- LazyLoader ----
\* the script sources asked for, and how many script elements are created
Srcs == {"a.js", "b.js"}
MaxElements == 3

\* the promise of a call that found the script loaded already
Resolved == 0

\* constructor: loadedScripts and pendingLoads are empty.  pendingLoads maps a
\* src to the promise of the element that loads it (NoPromise: no entry);
\* a promise is named by the position of its element in head.  head lists the
\* script elements appended to document.head, each loading, loaded or
\* failed.  asked and returned are the argument and the promise of the last
\* loadScript call.
NoPromise == -1
NewLazyLoader ==
  [loadedScripts |-> {}, pendingLoads |-> [s \in Srcs |-> NoPromise],
   head |-> <<>>, op |-> "constructor", asked |-> "", returned |-> NoPromise,
   appended |-> FALSE]

\* loadScript(src) on the loader l
loadScript(l, src) ==
  IF src \in l.loadedScripts
  THEN [l EXCEPT !.op = "loadScript", !.asked = src, !.returned = Resolved,
                 !.appended = FALSE]
  ELSE IF l.pendingLoads[src] # NoPromise
  THEN [l EXCEPT !.op = "loadScript", !.asked = src,
                 !.returned = l.pendingLoads[src], !.appended = FALSE]
  ELSE [l EXCEPT !.op = "loadScript", !.asked = src,
                 !.head = Append(@, [src |-> src, state |-> "loading"]),
                 !.pendingLoads[src] = Len(l.head) + 1,
                 !.returned = Len(l.head) + 1, !.appended = TRUE]

\* script.onload of element i
onload(l, i) ==
  [l EXCEPT !.op = "onload", !.head[i].state = "loaded",
            !.loadedScripts = @ \cup {l.head[i].src},
            !.pendingLoads[l.head[i].src] = NoPromise]

\* script.onerror of element i
onerror(l, i) ==
  [l EXCEPT !.op = "onerror", !.head[i].state = "failed",
            !.pendingLoads[l.head[i].src] = NoPromise]

\* cleanup(): pendingLoads.clear()
cleanup(l) ==
  [l EXCEPT !.op = "cleanup", !.pendingLoads = [s \in Srcs |-> NoPromise]]

\* ================================================================ state ====
\* biasOf    MARKET_REGIMES[k].allocation_bias, the objects every regime copy
\*           returned by getMarketRegime shares
\* flags     window.__marketOverrideFlags.onchain_div (unset reads as false)
\* cache     _riskBudgetCache
\* now       Date.now()
\* calls     number of applyMarketOverrides calls so far
\* ret       what the last call returned, with the inputs it was given
\* watch     history: the last two calculateRiskBudget calls whose rounded
\*           inputs were WatchKey, and whether a call with other rounded
\*           inputs came between them
\* seqPos    how many of the calls that supplied an on-chain score matched,
\*           from the first one on, the divergences of DivSeq (-1: departed)
\* strategyCache  _strategyCache of strategy-api-adapter.js
\* out       what the last call of getUnifiedState, validateRebalancing or
\*           generateExecutionPlan returned, with the inputs it was given
\* loader    the LazyLoader of lazy-loader.js with the script elements it
\*           appended to document.head

NoCall == [time |-> 0, generated_at |-> 0, hit |-> FALSE]

NoWatch == [n |-> 0, prev |-> NoCall, last |-> NoCall, between |-> FALSE,
            since |-> FALSE]

RetNone ==
  [op |-> "none", blended |-> Null, onchain |-> Null, risk |-> Null,
   regime |-> NoRegime, bias |-> ZeroBias, overrides |-> {},
   prevFlag |-> FALSE, divergence |-> NaN,
   risky |-> 0, stables |-> 0, generated_at |-> 0, hit |-> FALSE,
   allocation |-> [g \in Groups |-> 0], targets |-> [g \in Groups |-> 0],
   final_risky |-> 0, exposure_cap |-> Null,
   strategy |-> "", mode |-> "", confidence |-> 0, error |-> FALSE,
   askedMode |-> "", store |-> EmptyStore, threw |-> FALSE, raised |-> FALSE]

OutNone == [op |-> "none", calls |-> 0]

Init ==
  /\ biasOf = MARKET_REGIMES
  /\ flags = FALSE
  /\ cache = EmptyCache
  /\ now = 0
  /\ calls = 0
  /\ ret = RetNone
  /\ watch = NoWatch
  /\ seqPos = 0
  /\ strategyCache = EmptyStrategyCache
  /\ loader = NewLazyLoader
  /\ out = OutNone

\* the divergences of the hysteresis example, in points
DivSeq == <<20, 26, 28, 25, 24, 22>>

NextSeqPos(pos, onchain, div) ==
  IF onchain = Null THEN pos
  ELSE IF pos >= 0 /\ pos < Len(DivSeq) /\ div = DivSeq[pos + 1] * ScoreDen
       THEN pos + 1
       ELSE -1

\* the rounded inputs whose calls the history follows
WatchKey == <<50, 50>>

\* the history after a calculateRiskBudget call that returned, at time t, the
\* object generated at gen for the rounded inputs key
Watched(w, key, t, gen, hit) ==
  IF key = WatchKey
  THEN [n |-> Min(2, w.n + 1), prev |-> w.last,
        last |-> [time |-> t, generated_at |-> gen, hit |-> hit],
        between |-> w.since, since |-> FALSE]
  ELSE [w EXCEPT !.since = TRUE]

\* --------------------------------------------------------------- actions ----
TickMs == 15000
StrategyTickMs == 30000

\* the clock advances
Tick ==
  /\ now < MaxTicks * TickMs
  /\ now' = now + TickMs
  /\ UNCHANGED <<biasOf, flags, cache, calls, ret, watch, seqPos,
                 strategyCache, out, loader>>

\* getMarketRegime(b) called on its own
GetMarketRegime(b) ==
  /\ ret' = [RetNone EXCEPT !.op = "getMarketRegime", !.blended = b,
                            !.regime = getMarketRegime(b),
                            !.bias = biasOf[getMarketRegime(b).base]]
  /\ UNCHANGED <<biasOf, flags, cache, now, calls, watch, seqPos,
                 strategyCache, out, loader>>

\* calculateRiskBudget(b, r) called on its own.  When the logger throws on a
\* miss (line 229) the exception leaves the function before the cache write.
CalculateRiskBudget(b, r, logThrows) ==
  LET rb == calculateRiskBudget(cache, now, b, r)
      threw == ~rb.hit /\ logThrows
  IN /\ cache' = IF threw THEN cache ELSE rb.cache
     /\ watch' = IF threw THEN watch
                 ELSE Watched(watch, rb.cache.key, now, rb.generated_at, rb.hit)
     /\ ret' = IF threw
               THEN [RetNone EXCEPT !.op = "calculateRiskBudget", !.blended = b,
                                    !.risk = r, !.threw = TRUE]
               ELSE [RetNone EXCEPT !.op = "calculateRiskBudget", !.blended = b,
                                    !.risk = r, !.risky = rb.risky,
                                    !.stables = rb.stables, !.hit = rb.hit,
                                    !.generated_at = rb.generated_at]
     /\ UNCHANGED <<biasOf, flags, now, calls, seqPos, strategyCache, out,
                    loader>>

\* getRegimeDisplayData(b, o, r): base regime, overrides, effective regime
\* (the same score, so the same regime, given the adjusted bias object),
\* risk budget, allocation of the risky budget
RegimeDisplayData(b, o, r, logThrows) ==
  LET base == getMarketRegime(b)
      adj == applyMarketOverrides(biasOf[base.base], flags, base.score, o, r)
      rb == calculateRiskBudget(cache, now, b, r)
      threw == ~rb.hit /\ logThrows
      called == [RetNone EXCEPT !.op = "getRegimeDisplayData", !.blended = b,
                                !.onchain = o, !.risk = r, !.regime = base,
                                !.bias = adj.bias, !.overrides = adj.overrides,
                                !.prevFlag = flags, !.divergence = adj.divergence]
  IN /\ biasOf' = [biasOf EXCEPT ![base.base] = adj.bias]
     /\ flags' = adj.flag
     /\ calls' = calls + 1
     /\ seqPos' = NextSeqPos(seqPos, o, adj.divergence)
     /\ cache' = IF threw THEN cache ELSE rb.cache
     /\ watch' = IF threw THEN watch
                 ELSE Watched(watch, rb.cache.key, now, rb.generated_at, rb.hit)
     /\ ret' = IF threw
               THEN [called EXCEPT !.threw = TRUE]
               ELSE [called EXCEPT !.risky = rb.risky, !.stables = rb.stables,
                                   !.hit = rb.hit, !.generated_at = rb.generated_at,
                                   !.allocation =
                                      allocateRiskyBudget(rb.risky, adj.bias)]
     /\ UNCHANGED <<now, loader>>

GetRegimeDisplayData(b, o, r, logThrows) ==
  RegimeDisplayData(b, o, r, logThrows) /\ UNCHANGED <<strategyCache, out>>

\* getUnifiedState() against the store scores st, with the score of the
\* cycle position, the number of contradictory signals detected (the list is
\* cut to its first two entries) and the decision the engine would build on
\* a cache miss.  The regime step runs getRegimeDisplayData when the blended
\* score is not null; the decision object returned by the adapter is the
\* one whose confidence field is then overwritten.
GetUnifiedState(st, cycleScore, detected, engine) ==
  LET blendedScore == OrNull(st.blended)
      onchainScore == OrNull(st.onchain)
      riskScore == OrNull(st.risk)
      n == Kept(detected)
      adaptiveWeights == calculateAdaptiveWeights(cycleScore, onchainScore, n)
      context == [cycleScore |-> cycleScore, onchainScore |-> onchainScore,
                  riskScore |-> riskScore]
      d == calculateIntelligentDecisionIndexAPI(
             strategyCache, now, context, ContextContradiction(n), engine)
      adjusted == AdjustedConfidence(d.confidence, n)
  IN /\ IF blendedScore # Null
        THEN RegimeDisplayData(blendedScore, onchainScore, riskScore, FALSE)
        ELSE /\ ret' = [RetNone EXCEPT !.op = "getMarketRegime",
                                       !.blended = 50 * ScoreDen,
                                       !.regime = getMarketRegime(50 * ScoreDen)]
             /\ UNCHANGED <<biasOf, flags, cache, now, calls, watch, seqPos,
                            loader>>
     /\ strategyCache' = [d.cache EXCEPT !.confidence = adjusted]
     /\ out' = [op |-> "getUnifiedState", calls |-> out.calls + 1,
                detected |-> detected, contradictions |-> n, hit |-> d.hit,
                template |-> d.cache.template, context |-> context,
                computedFrom |-> d.computedFrom,
                adaptiveWeights |-> adaptiveWeights,
                produced |-> d.produced, confidence |-> adjusted]

\* the clock advances by half the strategy cache's lifetime
StrategyTick ==
  /\ now < MaxTicks * StrategyTickMs
  /\ now' = now + StrategyTickMs
  /\ UNCHANGED <<biasOf, flags, cache, calls, ret, watch, seqPos,
                 strategyCache, out, loader>>

\* the part of a proposal and of the state it leaves that both entry points
\* of targets-coordinator share
Returned(opName, mode, st, res) ==
  /\ biasOf' = res.biasOf
  /\ flags' = res.flag
  /\ calls' = IF res.overridden THEN calls + 1 ELSE calls
  /\ seqPos' = IF res.overridden
               THEN NextSeqPos(seqPos, st.onchain, res.divergence)
               ELSE seqPos
  /\ cache' = res.cache
  /\ watch' = IF res.budget
              THEN Watched(watch, res.cache.key, now, res.generated_at, res.hit)
              ELSE watch
  /\ ret' = [RetNone EXCEPT !.op = opName, !.askedMode = mode, !.store = st,
                            !.blended = st.blended, !.onchain = st.onchain,
                            !.risk = st.risk, !.regime = res.regime,
                            !.bias = res.bias, !.overrides = res.overrides,
                            !.prevFlag = flags, !.divergence = res.divergence,
                            !.risky = res.risky, !.stables = res.stables,
                            !.hit = res.hit, !.generated_at = res.generated_at,
                            !.allocation = res.allocation,
                            !.final_risky = res.final_risky,
                            !.exposure_cap = res.exposure_cap,
                            !.targets = res.targets, !.strategy = res.strategy,
                            !.mode = res.mode, !.confidence = res.confidence,
                            !.error = res.error, !.raised = res.raised]
  /\ UNCHANGED <<now, strategyCache, out, loader>>

\* generateSmartTargets() against the store snapshot st
GenerateSmartTargets(st, logThrows) ==
  Returned("generateSmartTargets", "smart", st,
           generateSmartTargets(st, biasOf, flags, cache, now, logThrows))

\* proposeTargets(mode) against the store snapshot st
ProposeTargets(mode, st, logThrows) ==
  Returned("proposeTargets", mode, st,
           proposeTargets(mode, st, biasOf, flags, cache, now, logThrows))

\* calculateAdaptiveWeights(cycleData, onchainScore, contradictions) called
\* on its own
CalculateAdaptiveWeights(score, onchainScore, level) ==
  /\ out' = [op |-> "calculateAdaptiveWeights", calls |-> out.calls,
             cycleScore |-> score, onchainScore |-> onchainScore,
             level |-> level,
             adaptiveWeights |->
               calculateAdaptiveWeights(score, onchainScore, level)]
  /\ UNCHANGED <<biasOf, flags, cache, now, calls, ret, watch, seqPos,
                 strategyCache, loader>>

\* validateRebalancing(currentTargets, proposedTargets, options)
ValidateRebalancing(currentTargets, proposedTargets, options) ==
  /\ out' = [op |-> "validateRebalancing", calls |-> out.calls + 1,
             current |-> currentTargets, proposed |-> proposedTargets,
             options |-> options,
             validation |-> validateRebalancing(currentTargets, proposedTargets,
                                                options, now)]
  /\ UNCHANGED <<biasOf, flags, cache, now, calls, ret, watch, seqPos,
                 strategyCache, loader>>

\* generateExecutionPlan(validationResult) on the result validateRebalancing
\* returned last
GenerateExecutionPlan ==
  /\ out.op = "validateRebalancing"
  /\ out' = [op |-> "generateExecutionPlan", calls |-> out.calls,
             current |-> out.current, proposed |-> out.proposed,
             options |-> out.options, validation |-> out.validation,
             plan |-> generateExecutionPlan(out.validation)]
  /\ UNCHANGED <<biasOf, flags, cache, now, calls, ret, watch, seqPos,
                 strategyCache, loader>>

\* lazyLoader.loadScript(src)
LoadScript(src) ==
  /\ loader' = loadScript(loader, src)
  /\ UNCHANGED <<biasOf, flags, cache, now, calls, ret, watch, seqPos,
                 strategyCache, out>>

\* the browser fires the load event of the script element i
OnLoad(i) ==
  /\ loader.head[i].state = "loading"
  /\ loader' = onload(loader, i)
  /\ UNCHANGED <<biasOf, flags, cache, now, calls, ret, watch, seqPos,
                 strategyCache, out>>

\* the browser fires the error event of the script element i
OnError(i) ==
  /\ loader.head[i].state = "loading"
  /\ loader' = onerror(loader, i)
  /\ UNCHANGED <<biasOf, flags, cache, now, calls, ret, watch, seqPos,
                 strategyCache, out>>

\* lazyLoader.cleanup()
Cleanup ==
  /\ loader' = cleanup(loader)
  /\ UNCHANGED <<biasOf, flags, cache, now, calls, ret, watch, seqPos,
                 strategyCache, out>>

\* ----------------------------------------------------------- input sets ----
\* every score of the resolution in and just around [0,100], null, NaN and
\* a string
RegimeInputs == (-2 .. 100 * ScoreDen + 2) \cup {Null, NaN, Str}

\* blended scores: one in each regime, one in the gap between two ranges
BlendedInputs ==
  {20 * ScoreDen, 39 * ScoreDen + 1, 50 * ScoreDen, 75 * ScoreDen, 90 * ScoreDen}
OnchainInputs == {Null, 20 * ScoreDen}
RiskInputs == {Null, 20 * ScoreDen, 50 * ScoreDen, 85 * ScoreDen}

\* risk budget: blended scores across the clamp and around its edges, risk
\* scores absent, in range and out of range
BudgetBlended ==
  {-5 * ScoreDen, 0, 35 * ScoreDen, 44 * ScoreDen, 50 * ScoreDen,
   57 * ScoreDen + 1, 62 * ScoreDen, 70 * ScoreDen, 80 * ScoreDen, 105 * ScoreDen}
BudgetRisk ==
  {Null, -25 * ScoreDen, 35 * ScoreDen, 50 * ScoreDen, 85 * ScoreDen, 150 * ScoreDen}

\* hysteresis: one blended score and the on-chain scores that give the
\* divergences of DivSeq
HystBlended == {50 * ScoreDen}
HystOnchain == {Null} \cup {(50 - DivSeq[i]) * ScoreDen : i \in 1..Len(DivSeq)}
HystRisk == {Null, 85 * ScoreDen}

\* store snapshots
CcsInputs == {Null, 60 * ScoreDen, Str}
StarInputs == {Null, 75 * ScoreDen}
MultValues == {5, 20, -30, Str}
MultInputs ==
  {[g \in Groups |-> IF g = "BTC" THEN m ELSE Null] : m \in MultValues}
SignalInputs == {NoSignals, [present |-> TRUE, ds |-> 900, dc |-> 1000, vol |-> 300]}
BackendInputs == {"healthy", "error"}
Modes == {"macro", "ccs", "cycle", "smart", "blend", "other"}

\* snapshots for the smart strategy
SmartStores ==
  {[EmptyStore EXCEPT !.blended = b, !.onchain = o, !.risk = r, !.signals = sg,
                      !.backend = be] :
     b \in {20 * ScoreDen, 75 * ScoreDen, Null}, o \in OnchainInputs,
     r \in {Null, 85 * ScoreDen}, sg \in SignalInputs, be \in BackendInputs}

\* snapshots for the smart strategy reached through proposeTargets
ProposedSmartStores ==
  {[EmptyStore EXCEPT !.blended = b, !.risk = r, !.ccs = c, !.ccsStar = c] :
     b \in {20 * ScoreDen, NaN, Null}, r \in {Null, 85 * ScoreDen},
     c \in {Null, 75 * ScoreDen}}

\* CCS score and CCS* absent, present, not a number
PlainStores ==
  {[EmptyStore EXCEPT !.ccs = c, !.ccsStar = cs] :
     c \in CcsInputs, cs \in StarInputs}

\* the same with a blended score and with or without cycle multipliers
BlendStores ==
  {[st EXCEPT !.blended = b] :
     st \in PlainStores, b \in {Null, 50 * ScoreDen, 75 * ScoreDen}}
  \cup
  {[st EXCEPT !.blended = b, !.hasMultipliers = TRUE, !.multipliers = m] :
     st \in PlainStores, b \in {Null, 50 * ScoreDen, 75 * ScoreDen},
     m \in MultInputs}

CycleStores ==
  {[st EXCEPT !.hasMultipliers = TRUE, !.multipliers = m] :
     st \in {EmptyStore, [EmptyStore EXCEPT !.ccs = 60 * ScoreDen,
                                            !.ccsStar = 75 * ScoreDen]},
     m \in MultInputs \cup {[g \in Groups |-> Null]}}
  \cup {EmptyStore}

Stores(mode) ==
  CASE mode = "smart" -> ProposedSmartStores
    [] mode = "blend" -> BlendStores
    [] mode = "cycle" -> CycleStores
    [] OTHER -> PlainStores

\* validateRebalancing: a current allocation and the proposals that move some
\* of its groups; the remaining groups keep their current weight
CurrentTargets ==
  [g \in Groups |->
     CASE g = "BTC" -> 30000 [] g = "ETH" -> 20000 [] g = "Stablecoins" -> 38000
       [] g = "SOL" -> 6000 [] g = "DeFi" -> 4000 [] g = "Others" -> 0
       [] OTHER -> 1000]
Moved(btc, eth, stables, sol, defi, others) ==
  [g \in Groups |->
     CurrentTargets[g] +
       CASE g = "BTC" -> btc [] g = "ETH" -> eth [] g = "Stablecoins" -> stables
         [] g = "SOL" -> sol [] g = "DeFi" -> defi [] g = "Others" -> others
         [] OTHER -> 0]
ProposedTargets ==
  {Moved(btc, eth, stables, rest[1], rest[2], rest[3]) :
     btc \in {0, 500, 3004, 4000, -7000}, eth \in {0, 6000},
     stables \in {0, -4000, 6000},
     rest \in {<<0, 0, 0>>, <<6000, 0, 0>>, <<6000, 8000, 5004>>}}

\* the pairs of maps passed: both given, or one of them missing
TargetPairs ==
  {<<Given(CurrentTargets), Given(w)>> : w \in ProposedTargets}
  \cup {<<NoTargets, Given(CurrentTargets)>>, <<Given(CurrentTargets), NoTargets>>}

\* options: on-chain score, drawdown, portfolio value, time of the last
\* rebalance (an hour ago), each absent or present
OptionInputs ==
  {[onchainScore |-> o, drawdown |-> dd, portfolioValueUSD |-> pv,
    lastRebalanceTime |-> lr] :
     o \in {Null, 30 * ScoreDen}, dd \in {Null, -300, -100},
     pv \in {Null, 3000, 6000, 100000}, lr \in {Null, -MsPerHour}}

\* getUnifiedState: store scores, cycle scores, contradictions detected,
\* engine outcomes
UnifiedStores ==
  {[EmptyStore EXCEPT !.blended = b, !.risk = r] :
     b \in {Null, 50 * ScoreDen}, r \in {Null, 20 * ScoreDen, 85 * ScoreDen}}
CycleScores == {50 * ScoreDen, 95 * ScoreDen}
Contradictions == 0 .. 3
EngineOutcomes ==
  {[path |-> "v2", confidence |-> 0], [path |-> "hardcoded", confidence |-> 0]}
  \cup {[path |-> "api", confidence |-> c] : c \in {20, 980}}

\* -------------------------------------------------------- specifications ----
RegimeCall == \E b \in RegimeInputs : GetMarketRegime(b)

BudgetCall ==
  \E b \in BudgetBlended, r \in BudgetRisk : CalculateRiskBudget(b, r, FALSE)

DisplayCall ==
  \E b \in BlendedInputs, o \in OnchainInputs, r \in RiskInputs :
    calls < MaxCalls /\ GetRegimeDisplayData(b, o, r, FALSE)

HystCall ==
  \E b \in HystBlended, o \in HystOnchain, r \in HystRisk :
    calls < Len(DivSeq) /\ GetRegimeDisplayData(b, o, r, FALSE)

SmartCall ==
  \E st \in SmartStores :
    calls < MaxCalls /\ GenerateSmartTargets(st, FALSE)

ProposeCall ==
  \E mode \in Modes : \E st \in Stores(mode) :
    \E f \in IF mode = "smart" THEN BOOLEAN ELSE {FALSE} :
      calls < MaxCalls /\ ProposeTargets(mode, st, f)

Next == DisplayCall \/ SmartCall
Spec == Init /\ [][Next]_vars

NextTargets == ProposeCall
SpecTargets == Init /\ [][NextTargets]_vars

NextRegime == RegimeCall
SpecRegime == Init /\ [][NextRegime]_vars

NextBudget == BudgetCall \/ Tick
SpecBudget == Init /\ [][NextBudget]_vars

NextHyst == HystCall
SpecHyst == Init /\ [][NextHyst]_vars

UnifiedCall ==
  \E st \in UnifiedStores, cy \in CycleScores, n \in Contradictions,
     e \in EngineOutcomes :
    out.calls < MaxUnified /\ GetUnifiedState(st, cy, n, e)

NextUnified == UnifiedCall \/ StrategyTick
SpecUnified == Init /\ [][NextUnified]_vars

\* 'ccs' mode against a store with every CCS score of the resolution in
\* [0,100], or none
CcsCall ==
  \E c \in (0 .. 100 * ScoreDen) \cup {Null} :
    ProposeTargets("ccs", [EmptyStore EXCEPT !.ccs = c], FALSE)

NextCcs == CcsCall
SpecCcs == Init /\ [][NextCcs]_vars

\* the smart strategy under each backend status, without signals, with strong
\* signals in a volatile market and with weak ones
ExposureSignals ==
  {NoSignals, [present |-> TRUE, ds |-> 900, dc |-> 1000, vol |-> 300],
   [present |-> TRUE, ds |-> 500, dc |-> 500, vol |-> 500]}
ExposureBackends == {"healthy", "stale", "error"}
ExposureStores ==
  {[EmptyStore EXCEPT !.blended = b, !.risk = r, !.signals = sg, !.backend = be] :
     b \in {20 * ScoreDen, 75 * ScoreDen}, r \in {Null, 85 * ScoreDen},
     sg \in ExposureSignals, be \in ExposureBackends}

ExposureCall ==
  \E st \in ExposureStores :
    calls < MaxCalls /\ GenerateSmartTargets(st, FALSE)

NextExposure == ExposureCall
SpecExposure == Init /\ [][NextExposure]_vars

\* a call creates an element only while fewer than MaxElements exist
LoadCall ==
  \E src \in Srcs :
    /\ Len(loadScript(loader, src).head) <= MaxElements
    /\ LoadScript(src)
LoadEvent == \E i \in 1..Len(loader.head) : OnLoad(i)
ErrorEvent == \E i \in 1..Len(loader.head) : OnError(i)
CleanupCall == Cleanup

NextLoader == LoadCall \/ LoadEvent \/ ErrorEvent \/ CleanupCall
SpecLoader == Init /\ [][NextLoader]_vars

\* calculateAdaptiveWeights is a function of its arguments: they are drawn
\* at the start and the call is applied to them
WeightArguments ==
  {[op |-> "arguments", calls |-> 0, cycleScore |-> cy, onchainScore |-> o,
    level |-> n] :
     cy \in (0 .. 100 * ScoreDen) \cup {Null},
     o \in {Null, 0, 10 * ScoreDen, 30 * ScoreDen, 50 * ScoreDen, 100 * ScoreDen},
     n \in 0 .. 4}

InitWeights ==
  /\ biasOf = MARKET_REGIMES
  /\ flags = FALSE
  /\ cache = EmptyCache
  /\ now = 0
  /\ calls = 0
  /\ ret = RetNone
  /\ watch = NoWatch
  /\ seqPos = 0
  /\ strategyCache = EmptyStrategyCache
  /\ loader = NewLazyLoader
  /\ out \in WeightArguments

WeightsCall ==
  /\ out.op = "arguments"
  /\ CalculateAdaptiveWeights(out.cycleScore, out.onchainScore, out.level)

NextWeights == WeightsCall
SpecWeights == InitWeights /\ [][NextWeights]_vars

\* validateRebalancing is a function of its arguments and the clock: the
\* arguments are drawn at the start and the call is applied to them
InitValidate ==
  /\ biasOf = MARKET_REGIMES
  /\ flags = FALSE
  /\ cache = EmptyCache
  /\ now = 0
  /\ calls = 0
  /\ ret = RetNone
  /\ watch = NoWatch
  /\ seqPos = 0
  /\ strategyCache = EmptyStrategyCache
  /\ loader = NewLazyLoader
  /\ out \in {[op |-> "arguments", calls |-> 0, current |-> tp[1],
                proposed |-> tp[2], options |-> o] :
                 tp \in TargetPairs, o \in OptionInputs}

ValidateCall ==
  /\ out.op = "arguments"
  /\ ValidateRebalancing(out.current, out.proposed, out.options)

PlanCall == GenerateExecutionPlan

NextValidate == ValidateCall \/ PlanCall
SpecValidate == InitValidate /\ [][NextValidate]_vars

\* =============================================================== claims ====
InScoreRange(b) == IsNum(b) /\ b >= 0 /\ b <= 100 * ScoreDen

\* C1: for every blendedScore in [0,100] exactly one regime range matches
\* and the 'regime not determined' fallback is not taken.
C1_ExactlyOneRegime ==
  (ret.op = "getMarketRegime" /\ InScoreRange(ret.blended))
    => /\ Cardinality(Matching(ret.blended)) = 1
       /\ ret.regime.warning # "Regime non determine"

\* C2: every result calculateRiskBudget returns, computed or cached, has
\* risky + stables = 100 exactly and risky in [20,85].
C2_BudgetSplit ==
  (ret.op = "calculateRiskBudget" /\ ~ret.threw)
    => /\ ret.risky + ret.stables = 100
       /\ ret.risky >= 20
       /\ ret.risky <= 85

\* a result served from the cache, strictly inside the clamp
C2_Witness ==
  /\ ret.op = "calculateRiskBudget"
  /\ ret.hit
  /\ ret.risky > 20
  /\ ret.risky < 85

\* the flags the example expects after each divergence of DivSeq
ExpectedFlags == <<FALSE, FALSE, TRUE, TRUE, TRUE, FALSE>>

\* C3: on every call that supplies an on-chain score the flag becomes
\* prevFlag ? (divergence > 23) : (divergence >= 27); from an unset flag the
\* divergences 20,26,28,25,24,22 give the flags F,F,T,T,T,F.
C3_SchmittRule ==
  /\ (ret.op = "getRegimeDisplayData" /\ ret.onchain # Null)
       => flags = IF ret.prevFlag
                  THEN ret.divergence > 23 * ScoreDen
                  ELSE ret.divergence >= 27 * ScoreDen
  /\ (seqPos >= 1 /\ seqPos <= Len(DivSeq)) => flags = ExpectedFlags[seqPos]

\* the whole example sequence has been played
C3_Witness == seqPos = Len(DivSeq) /\ ~flags

\* |sum of the 11 values - 100| <= 0.1
SumsTo100(t) ==
  /\ \A g \in Groups : t[g] # NaN
  /\ Total(t) >= 100000 - 100
  /\ Total(t) <= 100000 + 100

\* C4: the allocation allocateRiskyBudget returns holds the 11 canonical
\* groups and its values sum to 100 within 0.1.
C4_AllocationSums100 ==
  (ret.op = "getRegimeDisplayData" /\ ~ret.threw)
    => DOMAIN ret.allocation = Groups /\ SumsTo100(ret.allocation)

\* C5 as stated: two calls with the same rounded inputs less than 30s apart
\* return the identical result whatever was called in between, and a call
\* 30s or more after the previous one recomputes.
C5_SameInputsWithin30s ==
  watch.n = 2
    => /\ watch.last.time - watch.prev.time < CacheTTL
            => watch.last.generated_at = watch.prev.generated_at
       /\ watch.last.time - watch.prev.time >= CacheTTL
            => (~watch.last.hit /\ watch.last.generated_at = watch.last.time)

\* C5 amended: with no call for other rounded inputs in between and less
\* than 30s after the first call's result was generated, the second call
\* returns that result; otherwise it recomputes.
C5_CachedWhileUndisturbed ==
  watch.n = 2
    => /\ (~watch.between
           /\ watch.last.time - watch.prev.generated_at < CacheTTL)
            => (watch.last.hit
                /\ watch.last.generated_at = watch.prev.generated_at)
       /\ (watch.between
           \/ watch.last.time - watch.prev.generated_at >= CacheTTL)
            => (~watch.last.hit /\ watch.last.generated_at = watch.last.time)

\* a later call served the result of an earlier one
C5_Witness ==
  /\ watch.n = 2
  /\ ~watch.between
  /\ watch.last.hit
  /\ watch.last.time > watch.prev.time

\* C6: whatever the mode and the store, proposeTargets returns a proposal
\* with a non-empty strategy label and targets over the 11 canonical groups
\* that sum to 100 within 0.1.
C6_ProposalWellFormed ==
  ret.op = "proposeTargets"
    => /\ ret.strategy # ""
       /\ DOMAIN ret.targets = Groups
       /\ SumsTo100(ret.targets)

\* C7: no target map returned by proposeTargets or generateSmartTargets
\* holds a negative percentage (negative values are clamped to 0).
C7_NoNegativeTarget ==
  ret.op \in {"proposeTargets", "generateSmartTargets"}
    => \A g \in Groups : ret.targets[g] = NaN \/ ret.targets[g] >= 0

\* C8: whenever the divergence override fires, the returned regime's
\* stables_target is the regime's configured value plus exactly 10 (raised
\* to 50 by the extreme-risk override).
C8_DivergenceAddsTen ==
  "onchain_divergence" \in ret.overrides
    => ret.bias.stables_target =
         IF "high_risk" \in ret.overrides
         THEN Max(50, MARKET_REGIMES[ret.regime.base].stables_target + 10)
         ELSE MARKET_REGIMES[ret.regime.base].stables_target + 10

\* C9: a regime whose meme cap is 0 gets 0% in AI/Data, Gaming/NFT and
\* Memecoins.
C9_MemeCapZero ==
  (ret.op = "getRegimeDisplayData" /\ ~ret.threw /\ ret.bias.meme_cap = 0)
    => /\ ret.allocation["AI/Data"] = 0
       /\ ret.allocation["Gaming/NFT"] = 0
       /\ ret.allocation["Memecoins"] = 0

\* C10: when a strategy raised an exception, the proposal proposeTargets
\* returns is the normalized macro default with confidence in [0.2, 0.3]
\* and the error field set, in every mode.
C10_ErrorProposal ==
  (ret.op = "proposeTargets" /\ ret.raised)
    => /\ ret.targets = MacroNormalized
       /\ ret.confidence >= 200
       /\ ret.confidence <= 300
       /\ ret.error

\* C11: the confidence of the decision getUnifiedState returns is the
\* confidence the decision engine produced for that decision minus
\* min(0.15, 0.05 x contradictions), clamped to [0, 0.95], also when the
\* decision comes from the strategy cache.
C11_ConfidencePenalty ==
  out.op = "getUnifiedState"
    => out.confidence = AdjustedConfidence(out.produced, out.contradictions)

\* ---- validateRebalancing and generateExecutionPlan: what was passed ----
BothGiven == out.current.present /\ out.proposed.present
CurrentOf(g) == OrZero(out.current.weights[g])
ProposedOf(g) == OrZero(out.proposed.weights[g])
DeltaOf(g) == Abs(ProposedOf(g) - CurrentOf(g))

\* the change of g is below 20% of its current weight; from a weight of 0
\* the code counts any positive proposal as a change of 100%
BelowRelative(g) ==
  IF CurrentOf(g) > 0 THEN DeltaOf(g) * 5 < CurrentOf(g) ELSE ProposedOf(g) <= 0

Rule1Blocked ==
  /\ ~out.validation.valid
  /\ "No significant changes" \in out.validation.blocked_reasons

\* C12: when every group's change is below 3 points and below 20% relative,
\* validateRebalancing returns valid = false with the 'No significant
\* changes' reason.
C12_SmallChangesBlocked ==
  (/\ out.op = "validateRebalancing" /\ BothGiven
   /\ \A g \in Groups : DeltaOf(g) < MinChangeThreshold /\ BelowRelative(g))
    => Rule1Blocked

\* BTC 30 -> 30.5 with nothing else moving was validated and blocked
C12_Witness ==
  /\ out.op = "validateRebalancing" /\ BothGiven
  /\ CurrentOf("BTC") = 30000 /\ ProposedOf("BTC") = 30500
  /\ \A g \in Groups \ {"BTC"} : DeltaOf(g) = 0
  /\ Rule1Blocked

\* C13: the proposal is invalid under rule 1 whenever no group's absolute
\* change exceeds max(3.0 points, 20% of the group's current weight).
C13_BothThresholds ==
  (/\ out.op = "validateRebalancing" /\ BothGiven
   /\ \A g \in Groups :
        ~(DeltaOf(g) > MinChangeThreshold /\ DeltaOf(g) * 5 > CurrentOf(g)))
    => Rule1Blocked

DrawdownFires ==
  /\ out.options.drawdown # Null
  /\ out.options.drawdown < DrawdownBreaker
  /\ ProposedOf("Stablecoins") < StablesFloor

C15_FullSortedChanges ==
  (out.op = "validateRebalancing" /\ BothGiven)
    => LET ch == out.validation.changes
       IN /\ {ch[i].asset : i \in 1..Len(ch)} =
               {g \in Groups : DeltaOf(g) # 0}
          /\ \A i \in 1..Len(ch) - 1 :
               ch[i].absolute_change >= ch[i + 1].absolute_change

\* ---- generateExecutionPlan ----
PhaseNumbers == {out.plan.phases[i].phase : i \in 1..Len(out.plan.phases)}
PhaseAt(k) ==
  CHOOSE ph \in {out.plan.phases[i] : i \in 1..Len(out.plan.phases)} :
    ph.phase = k
AssetsIn(changes) == {changes[i].asset : i \in 1..Len(changes)}
PhaseAssets(k) == IF k \in PhaseNumbers THEN AssetsIn(PhaseAt(k).changes) ELSE {}
PhaseSize(k) == IF k \in PhaseNumbers THEN Len(PhaseAt(k).changes) ELSE 0

\* the order of a change is worth less than $200
SmallOrder(c) ==
  /\ out.options.portfolioValueUSD # Null
  /\ c.absolute_change * out.options.portfolioValueUSD < MinOrderSizeUsd * 100000

ValidPlan == out.op = "generateExecutionPlan" /\ out.validation.valid

\* C16: for a valid result every change is in exactly one phase, a change
\* whose order is below $200 is only in phase 3, which is never executed
\* immediately, and the phase sizes add up to total_changes.
C16_OnePhasePerChange ==
  ValidPlan
    => LET ch == out.validation.changes
       IN /\ \A i \in 1..Len(ch) :
               /\ Cardinality({k \in 1..3 : ch[i].asset \in PhaseAssets(k)}) = 1
               /\ SmallOrder(ch[i])
                    => /\ ch[i].skip_reason
                       /\ ch[i].asset \in PhaseAssets(3)
                       /\ ~PhaseAt(3).execute_immediately
          /\ \A i \in 1..Len(out.plan.phases) :
               Len(out.plan.phases[i].changes) =
                 Cardinality(AssetsIn(out.plan.phases[i].changes))
          /\ PhaseSize(1) + PhaseSize(2) + PhaseSize(3) = out.plan.total_changes
          /\ out.plan.total_changes = Len(ch)

\* a valid plan with executed and skipped changes
C16_Witness ==
  /\ ValidPlan
  /\ PhaseNumbers = {1, 2, 3}
  /\ \E i \in 1..Len(out.validation.changes) :
       SmallOrder(out.validation.changes[i])

NotSkipped ==
  {c \in {out.validation.changes[i] : i \in 1..Len(out.validation.changes)} :
     ~c.skip_reason}
HighAssets == {c.asset : c \in {c \in NotSkipped : DeltaOf(c.asset) > HighPriorityAbove}}
MediumAssets ==
  {c.asset : c \in {c \in NotSkipped : DeltaOf(c.asset) <= HighPriorityAbove}}

\* C17: phase 1 holds exactly the non-skipped changes with |change| > 5 and
\* is executed immediately; phase 2 holds the other non-skipped changes and
\* is executed immediately iff phase 1 has at most 3 items; phases come in
\* increasing number; an invalid validation gives executable = false, no
\* phases and total_changes 0.
C17_PhaseContents ==
  out.op = "generateExecutionPlan"
    => IF out.validation.valid
       THEN /\ out.plan.executable
            /\ PhaseAssets(1) = HighAssets
            /\ 1 \in PhaseNumbers => PhaseAt(1).execute_immediately
            /\ PhaseAssets(2) = MediumAssets
            /\ 2 \in PhaseNumbers
                 => (PhaseAt(2).execute_immediately
                       <=> Cardinality(HighAssets) <= 3)
            /\ \A i \in 1..Len(out.plan.phases) - 1 :
                 out.plan.phases[i].phase < out.plan.phases[i + 1].phase
       ELSE /\ ~out.plan.executable
            /\ ~out.plan.hasPhases
            /\ out.plan.total_changes = 0

\* a plan whose phase 1 has more than 3 items, so that phase 2 is deferred
C17_Witness ==
  /\ ValidPlan
  /\ Cardinality(HighAssets) > 3
  /\ 2 \in PhaseNumbers
  /\ ~PhaseAt(2).execute_immediately

\* C18: an input of getMarketRegime that is not a number in [0,100] (out of
\* range, non-numeric, missing, NaN) yields the Expansion regime with
\* confidence 0.1 and the warning set.
C18_InvalidScoreFallback ==
  (ret.op = "getMarketRegime" /\ ~InScoreRange(ret.blended))
    => /\ ret.regime.base = "expansion"
       /\ ret.regime.confidence = 100
       /\ ret.regime.warning # "none"

\* C19: the Stablecoins target generateSmartTargets returns for the smart
\* strategy is exactly 100 minus the final risky percentage.
C19_StablesComplement ==
  (ret.op = "generateSmartTargets" /\ ret.mode = "smart")
    => ret.targets["Stablecoins"] = (100 - ret.final_risky) * 1000

\* C20: in 'ccs' mode the fallback 'CCS Aggressive (simulated)' is used only
\* when the CCS score is absent, and every CCS score present in [0,100],
\* 0 included, gives the preset of its level labelled 'CCS-based (n)'.
C20_CcsFallbackOnlyWhenAbsent ==
  (ret.op = "proposeTargets" /\ ret.askedMode = "ccs")
    => /\ ret.strategy = "CCS Aggressive (simulated)" => ret.store.ccs = Null
       /\ InScoreRange(ret.store.ccs)
            => /\ ret.strategy = "CCS-based (n)"
               /\ ret.targets = generateCCSTargets(ret.store.ccs).targets

\* C21: in getUnifiedState the speed multiplier is 0.6 when three or more
\* contradictory signals are detected, 0.8 when exactly two, 1.0 otherwise.
C21_SpeedMultiplier ==
  out.op = "getUnifiedState"
    => out.adaptiveWeights.speedMultiplier =
         IF out.detected >= 3 THEN 600
         ELSE IF out.detected = 2 THEN 800
         ELSE 1000

\* the cycle score calculateAdaptiveWeights works with: 50 when missing or 0
GivenCycle ==
  IF out.cycleScore = Null \/ out.cycleScore = 0 THEN 50 * ScoreDen
  ELSE out.cycleScore

\* C22: the weights are (0.65, 0.25, 0.10) for a cycle score >= 90,
\* (0.55, 0.28, 0.17) for one in [70, 90) and (0.5, 0.3, 0.2) otherwise,
\* whatever the contradiction level; they sum to 1; an on-chain score is
\* raised to at least 30 when the cycle score is >= 90 and unchanged
\* otherwise.
C22_AdaptiveWeights ==
  out.op = "calculateAdaptiveWeights"
    => LET w == out.adaptiveWeights
       IN /\ <<w.wCycle, w.wOnchain, w.wRisk>> =
               IF GivenCycle >= 90 * ScoreDen THEN <<650, 250, 100>>
               ELSE IF GivenCycle >= 70 * ScoreDen THEN <<550, 280, 170>>
               ELSE <<500, 300, 200>>
          /\ w.wCycle + w.wOnchain + w.wRisk = 1000
          /\ out.onchainScore # Null
               => w.adjustedOnchainScore =
                    IF GivenCycle >= 90 * ScoreDen
                    THEN Max(30 * ScoreDen, out.onchainScore)
                    ELSE out.onchainScore

\* a strong cycle with a weak on-chain score and three contradictions
C22_Witness ==
  /\ out.op = "calculateAdaptiveWeights"
  /\ out.cycleScore = 95 * ScoreDen
  /\ out.onchainScore = 10 * ScoreDen
  /\ out.level = 3
  /\ out.adaptiveWeights.wCycle = 650
  /\ out.adaptiveWeights.adjustedOnchainScore = 30 * ScoreDen

\* C23: for integer blended and risk scores in [0,100] the risky percentage
\* returned by calculateRiskBudget is the exact value of
\* round(100 * clamp(clamp((blended - 35) / 45, 0, 1) * (1 - 0.5 * risk / 100),
\* 0.20, 0.85)), that is round(clamp(clamp(blended - 35, 0, 45) * (200 - risk)
\* / 90, 20, 85)) with halves rounded up, and the stables percentage is 100
\* minus it.
C23_RiskBudgetFormula ==
  (/\ ret.op = "calculateRiskBudget"
   /\ ~ret.threw
   /\ IsNum(ret.blended) /\ ret.blended % ScoreDen = 0
   /\ ret.blended >= 0 /\ ret.blended <= 100 * ScoreDen
   /\ IsNum(ret.risk) /\ ret.risk % ScoreDen = 0
   /\ ret.risk >= 0 /\ ret.risk <= 100 * ScoreDen)
    => LET blended == ret.blended \div ScoreDen
           risk == ret.risk \div ScoreDen
           num == Max(0, Min(45, blended - 35)) * (200 - risk)
           exact == IF num <= 20 * 90 THEN 20
                    ELSE IF num >= 85 * 90 THEN 85
                    ELSE RoundDiv(num, 90)
       IN /\ ret.risky = exact
          /\ ret.stables = 100 - exact

\* C24: over any sequence of calls the divergence flag goes from false to
\* true only on a call whose divergence is at least 27 and from true to false
\* only on a call whose divergence is at most 23; a call whose divergence is
\* strictly between 23 and 27, and a call without an on-chain score, leaves
\* the flag as it was.
C24_NoFlapping ==
  [][/\ (~flags /\ flags')
          => (ret'.onchain # Null /\ ret'.divergence >= DivUp * ScoreDen)
     /\ (flags /\ ~flags')
          => (/\ ret'.onchain # Null
              /\ ret'.divergence # NaN
              /\ ret'.divergence <= DivDown * ScoreDen)
     /\ (/\ ret'.onchain # Null
         /\ ret'.divergence > DivDown * ScoreDen
         /\ ret'.divergence < DivUp * ScoreDen)
          => flags' = flags
     /\ ret'.onchain = Null => flags' = flags]_vars

\* a set flag has survived a call inside the band, or a call without an
\* on-chain score
C24_Witness ==
  /\ ret.op = "getRegimeDisplayData"
  /\ ret.prevFlag
  /\ flags
  /\ \/ ret.onchain = Null
     \/ ret.divergence \in {24 * ScoreDen, 25 * ScoreDen, 26 * ScoreDen}

\* C25: applyMarketOverrides never modifies the shared regime definitions:
\* after any sequence of calls each allocation_bias of MARKET_REGIMES has its
\* initial value.
C25_RegimesUntouched ==
  \A k \in RegimeKeys : biasOf[k] = MARKET_REGIMES[k]

\* C26: every value of the allocation allocateRiskyBudget returns is a finite
\* number that is not negative, whatever overrides were applied before.
C26_AllocationNonNegative ==
  (ret.op = "getRegimeDisplayData" /\ ~ret.threw)
    => \A g \in DOMAIN ret.allocation :
         IsNum(ret.allocation[g]) /\ ret.allocation[g] >= 0

\* C27: the final risky percentage of the smart strategy never exceeds the
\* risky percentage of the risk budget; the exposure cap of the backend, when
\* there is one, lies in [30,95] and bounds it too; it is at most 5 when the
\* backend status is 'error' and at most 8 when it is 'stale'.
C27_FinalRiskyCapped ==
  (ret.op = "generateSmartTargets" /\ ret.mode = "smart")
    => /\ ret.final_risky <= ret.risky
       /\ ret.exposure_cap # Null
            => /\ ret.exposure_cap >= 30
               /\ ret.exposure_cap <= 95
               /\ ret.final_risky <= ret.exposure_cap
       /\ ret.store.backend = "error" => ret.final_risky <= 5
       /\ ret.store.backend = "stale" => ret.final_risky <= 8

\* stale signals have lowered a larger budget to 8
C27_Witness ==
  /\ ret.op = "generateSmartTargets"
  /\ ret.mode = "smart"
  /\ ret.store.backend = "stale"
  /\ ret.exposure_cap # Null
  /\ ret.risky > 8
  /\ ret.final_risky = 8

\* C28: calculateIntelligentDecisionIndexAPI returns a cached decision only
\* for the context it was computed from: a call whose cycle, on-chain or risk
\* score differs from that context gets a decision computed anew, even
\* within the 60s lifetime of the cache.
C28_CacheKeyedByContext ==
  (out.op = "getUnifiedState" /\ out.hit) => out.computedFrom = out.context

\* C29: whenever generateExecutionPlan returns executable = true the plan
\* has a non-empty phase 1 or phase 2, that is at least one change that is
\* not skipped; a validation whose changes are all below the minimum order
\* size never yields an executable plan.
C29_ExecutableHasOrders ==
  (out.op = "generateExecutionPlan" /\ out.plan.executable)
    => /\ PhaseNumbers \cap {1, 2} # {}
       /\ NotSkipped # {}

\* script elements of a src that are loading or loaded
Live(src) ==
  {i \in 1..Len(loader.head) :
     loader.head[i].src = src /\ loader.head[i].state \in {"loading", "loaded"}}

\* C30: across any interleaving of loadScript calls, load and error events
\* and cleanup(), at most one script element of a src is in flight or
\* loaded: a loaded src is never appended again, and a call appends an
\* element only when no element of that src is still loading.
C30_OneElementPerSrc ==
  \A src \in Srcs : Cardinality(Live(src)) <= 1

====
